---- MODULE Spec2Model ----
(***************************************************************************)
(* Model of the data pipeline of the semiconductor dashboard pages:        *)
(*   src/pages/04_semi.py  load_data          (daily close, "price" mode)  *)
(*   src/pages/app.py      load_revenue_data  (annual revenue)             *)
(*   src/pages/app.py      year filter, normalisation to 100, melt         *)
(* Cell values are float64 numbers with their rounding.                    *)
(***************************************************************************)
EXTENDS Integers, Sequences, FiniteSets, TLC

VARIABLES mode, ticker_list, source, i, data, warnings, reads, pc, ret, raised,
          start_year, df_filtered, normalized_df, df_long

vars == <<mode, ticker_list, source, i, data, warnings, reads, pc, ret, raised,
          start_year, df_filtered, normalized_df, df_long>>

fetchVars == <<mode, ticker_list, source, i, data, warnings, reads, ret, raised>>
pageVars == <<start_year, df_filtered, normalized_df, df_long>>

(***************************************************************************)
(* Bounds of the model and constants of the program                        *)
(***************************************************************************)
\* number of instruments of TICKERS a request may select
NumNames == 2
\* number of distinct timestamps the source may report
NumDates == 3
\* timestamps per calendar year (two fiscal period ends fall in one year)
PeriodsPerYear == 2
\* the raw value of a loaded table that is neither 0 nor 100
MaxVal == 3
\* number of rows of a loaded table handed to the page code
NumRows == 2
\* df_filtered / 1_000_000_000
Scale == 1000000000
\* ... * 100
Base == 100

TICKERS == <<"Samsung Elec", "SK Hynix", "DB Hitek", "Leeno", "Hana Micron">>

Names == {TICKERS[k] : k \in 1..NumNames}
Dates == 0..(NumDates - 1)

(***************************************************************************)
(* float64 values (numpy), non-negative, round to nearest even.            *)
(* A number is mantissa * 2^exp with the 53-bit mantissa hi * 2^27 + lo in *)
(* [2^52, 2^53); zero, inf and NaN are classes of their own.  Exponents    *)
(* stay far from the overflow and underflow thresholds.                    *)
(***************************************************************************)
Limb == 2^27

Num(h, l, e) == [cls |-> "num", hi |-> h, lo |-> l, exp |-> e]
NaN == [cls |-> "nan", hi |-> 0, lo |-> 0, exp |-> 0]
Inf == [cls |-> "inf", hi |-> 0, lo |-> 0, exp |-> 0]
Zero == [cls |-> "zero", hi |-> 0, lo |-> 0, exp |-> 0]

RECURSIVE Log2(_)
Log2(n) == IF n < 2 THEN 0 ELSE 1 + Log2(n \div 2)

\* the float of a positive integer below 2^31 (exact)
Flt(n) ==
    IF n = 0 THEN Zero
    ELSE LET L == Log2(n)
         IN  IF L <= 25 THEN Num(n * 2^(25 - L), 0, L - 52)
             ELSE Num(n \div 2^(L - 25), (n % 2^(L - 25)) * 2^(52 - L), L - 52)

\* pandas isna on one cell
isna(x) == x.cls = "nan"
IsZero(x) == x.cls = "zero"

\* mantissa <<qh, ql>> rounded up when the discarded part says so
RoundedNum(qh, ql, up, e) ==
    IF ~up THEN Num(qh, ql, e)
    ELSE IF ql + 1 < Limb THEN Num(qh, ql + 1, e)
    ELSE IF qh + 1 < 2^26 THEN Num(qh + 1, 0, e)
    ELSE Num(2^25, 0, e + 1)

\* n more bits of the quotient q of the remainder r by b (restoring division)
RECURSIVE DivBits(_, _, _, _, _, _, _)
DivBits(n, rh, rl, qh, ql, bh, bl) ==
    IF n = 0 THEN <<qh, ql, rh, rl>>
    ELSE LET dl == (2 * rl) % Limb
             dh == 2 * rh + (2 * rl) \div Limb
             ge == dh > bh \/ (dh = bh /\ dl >= bl)
             borrow == IF dl < bl THEN 1 ELSE 0
             bit == IF ge THEN 1 ELSE 0
         IN  DivBits(n - 1,
                     IF ge THEN dh - bh - borrow ELSE dh,
                     IF ge THEN dl - bl + borrow * Limb ELSE dl,
                     2 * qh + (2 * ql + bit) \div Limb,
                     (2 * ql + bit) % Limb,
                     bh, bl)

\* x / y for two numbers, by long division
LongDivision(x, y) ==
    LET ge == x.hi > y.hi \/ (x.hi = y.hi /\ x.lo >= y.lo)
        borrow == IF x.lo < y.lo THEN 1 ELSE 0
        q == IF ge
             THEN DivBits(52, x.hi - y.hi - borrow, x.lo - y.lo + borrow * Limb,
                          0, 1, y.hi, y.lo)
             ELSE DivBits(53, x.hi, x.lo, 0, 0, y.hi, y.lo)
        th == 2 * q[3] + (2 * q[4]) \div Limb
        tl == (2 * q[4]) % Limb
        up == \/ th > y.hi
              \/ th = y.hi /\ tl > y.lo
              \/ th = y.hi /\ tl = y.lo /\ q[2] % 2 = 1
    IN  RoundedNum(q[1], q[2], up, x.exp - y.exp - (IF ge THEN 52 ELSE 53))

\* The numbers the model divides: the raw values, the unit of the display
\* scaling, the substitute start value 1 and the scaled raw values.  Their
\* quotients are computed once.
Operands ==
    LET raw == {Flt(v) : v \in {MaxVal, Base}}
    IN  raw \cup {Flt(Scale), Flt(1)} \cup {LongDivision(v, Flt(Scale)) : v \in raw}

Quotients == {<<x, y, LongDivision(x, y)>> : x \in Operands, y \in Operands}

\* x / y for two numbers
DivNum(x, y) ==
    LET known == {q \in Quotients : q[1] = x /\ q[2] = y}
    IN  IF known = {} THEN LongDivision(x, y) ELSE (CHOOSE q \in known : TRUE)[3]

\* x / y on float cells: x/0 is inf, 0/0 is NaN (numpy true division)
Div(x, y) ==
    IF isna(x) \/ isna(y) THEN NaN
    ELSE IF y = Inf THEN (IF x = Inf THEN NaN ELSE Zero)
    ELSE IF x = Inf THEN Inf
    ELSE IF IsZero(y) THEN (IF IsZero(x) THEN NaN ELSE Inf)
    ELSE IF IsZero(x) THEN Zero
    ELSE DivNum(x, y)

\* n = OddPart(n) * 2^TwoPart(n)
RECURSIVE TwoPart(_)
TwoPart(n) == IF n % 2 = 1 THEN 0 ELSE 1 + TwoPart(n \div 2)
OddPart(n) == n \div 2^TwoPart(n)

\* mantissa <<h, l>> times k, bit by bit of k from the weight b down
RECURSIVE TimesBits(_, _, _, _, _, _)
TimesBits(h, l, k, b, ah, al) ==
    IF b = 0 THEN <<ah, al>>
    ELSE LET bit == (k \div b) % 2
             sl == 2 * al + bit * l
         IN  TimesBits(h, l, k, b \div 2, 2 * ah + bit * h + sl \div Limb, sl % Limb)

\* x * n for a number x and a positive integer n whose odd part is below 32
MulNum(x, n) ==
    LET k == OddPart(n)
        p == TimesBits(x.hi, x.lo, k, 2^Log2(k), 0, 0)
        s == Log2(p[1]) - 25
        rem == p[2] % 2^s
        ql == (p[1] % 2^s) * 2^(27 - s) + p[2] \div 2^s
        up == s > 0 /\ (2 * rem > 2^s \/ (2 * rem = 2^s /\ ql % 2 = 1))
    IN  RoundedNum(p[1] \div 2^s, ql, up, x.exp + s + TwoPart(n))

\* x * n on a float cell, n a positive integer
MulInt(x, n) == IF x.cls = "num" THEN MulNum(x, n) ELSE x

(***************************************************************************)
(* Sequences, indexes and tables                                           *)
(***************************************************************************)
Range(s) == {s[k] : k \in DOMAIN s}

\* ascending sequence of the elements of a finite set of integers
SortedSeq(S) ==
    [r \in 1..Cardinality(S) |-> CHOOSE x \in S : Cardinality({y \in S : y < x}) = r - 1]

Reverse(s) == [k \in 1..Len(s) |-> s[Len(s) + 1 - k]]

\* positions of idx in ascending order of their label, ties in original order
SortPerm(idx) ==
    LET Rank(k) == Cardinality({j \in DOMAIN idx :
                        idx[j] < idx[k] \/ (idx[j] = idx[k] /\ j < k)}) + 1
    IN  [r \in 1..Len(idx) |-> CHOOSE k \in DOMAIN idx : Rank(k) = r]

\* pd.DataFrame(): no rows, no columns, a RangeIndex (not a DatetimeIndex)
EmptyDataFrame ==
    [index |-> <<>>, dated |-> FALSE, columns |-> <<>>, cells |-> <<>>]

\* DataFrame.empty: any axis of length 0
IsEmpty(df) == Len(df.index) = 0 \/ Len(df.columns) = 0

(***************************************************************************)
(* The external source: what yf.download(ticker) / yf.Ticker(t).financials *)
(* may hand back for one instrument                                        *)
(*   raise   the call raises (transport error, timeout)                    *)
(*   empty   an empty frame                                                *)
(*   nofield a non-empty frame without the 'Close' / 'Total Revenue' field *)
(*   table   the field selects a two-dimensional frame, not one series     *)
(*   series  the field selects one series; dated: it has a DatetimeIndex   *)
(***************************************************************************)
NoPayload(k) == [kind |-> k, dated |-> FALSE, index |-> <<>>, values |-> <<>>]

\* daily closes come oldest first, financial statements newest first
SourceOrder(m, S) == IF m = "price" THEN SortedSeq(S) ELSE Reverse(SortedSeq(S))

\* The loaders never look at a value: the observation at timestamp t is t + 1.
SeriesOver(m, S, d) ==
    LET idx == SourceOrder(m, S)
    IN  [kind |-> "series", dated |-> d, index |-> idx,
         values |-> [k \in 1..Len(idx) |-> Flt(idx[k] + 1)]]

\* yf.download indexes by date; the period labels of a financial statement
\* are timestamps (dated) or anything else the provider sends
SeriesResponses(m) ==
    {SeriesOver(m, S, d) : S \in (SUBSET Dates) \ {{}},
                           d \in IF m = "price" THEN {TRUE} ELSE BOOLEAN}

\* 'Total Revenue' present in a statement that has no period column
EmptySeries == [kind |-> "series", dated |-> TRUE, index |-> <<>>, values |-> <<>>]

Responses(m) ==
    {NoPayload("raise"), NoPayload("empty"), NoPayload("nofield"), NoPayload("table")}
        \cup SeriesResponses(m)
        \cup (IF m = "revenue" THEN {EmptySeries} ELSE {})

\* st.warning / st.error calls, in call order
Msg(level, kind, name) == [level |-> level, kind |-> kind, name |-> name]

\* the value bound to a name in the dict `data`
Entry(name, resp) ==
    [name |-> name,
     value |-> [ndim |-> IF resp.kind = "table" THEN 2 ELSE 1,
                dated |-> resp.dated, index |-> resp.index, values |-> resp.values]]

\* load_data's loop body without the `if not df.empty` test
load_data_step_store_empty(st, name, resp) ==
    LET called == [st EXCEPT !.reads = @ + 1]
    IN  IF resp.kind \in {"raise", "nofield"}
        THEN [called EXCEPT !.warnings = Append(@, Msg("error", "FetchError", name))]
        ELSE [called EXCEPT !.data = Append(@, Entry(name, resp))]

(***************************************************************************)
(* load_data, 04_semi.py: one iteration of the loop over ticker_list       *)
(***************************************************************************)
load_data_step(st, name, resp) ==
    LET called == [st EXCEPT !.reads = @ + 1]
    IN  CASE resp.kind = "raise" ->
               [called EXCEPT !.warnings = Append(@, Msg("error", "FetchError", name))]
          [] resp.kind = "empty" ->
               [called EXCEPT !.warnings = Append(@, Msg("warning", "NoData", name))]
          \* df['Close'] raises KeyError, caught by `except Exception`
          [] resp.kind = "nofield" ->
               [called EXCEPT !.warnings = Append(@, Msg("error", "FetchError", name))]
          \* not df.empty: data[name] = df['Close'], whatever its shape
          [] OTHER ->
               [called EXCEPT !.data = Append(@, Entry(name, resp))]

(***************************************************************************)
(* load_revenue_data, app.py: one iteration of the loop                    *)
(***************************************************************************)
\* isinstance(revenue_series, pd.Series) and not revenue_series.empty
IsSeriesNotEmpty(resp) == resp.kind = "series" /\ Len(resp.index) > 0

\* 'Total Revenue' in financials_df.index
HasTotalRevenue(resp) == resp.kind \in {"table", "series"}

\* load_revenue_data's loop body storing a series under the name at its
\* arrival position instead of under its own name
load_revenue_data_step_by_arrival(st, name, resp) ==
    LET called == [st EXCEPT !.reads = @ + 1]
    IN  IF resp.kind = "raise"
        THEN [called EXCEPT !.warnings = Append(@, Msg("error", "FetchError", name))]
        ELSE IF HasTotalRevenue(resp)
             THEN IF IsSeriesNotEmpty(resp)
                  THEN [called EXCEPT !.data =
                            Append(@, Entry(TICKERS[Len(st.data) + 1], resp))]
                  ELSE [called EXCEPT !.warnings =
                            Append(@, Msg("warning", "ShapeMismatch", name))]
             ELSE [called EXCEPT !.warnings = Append(@, Msg("warning", "NoData", name))]

load_revenue_data_step(st, name, resp) ==
    LET called == [st EXCEPT !.reads = @ + 1]
    IN  IF resp.kind = "raise"
        THEN [called EXCEPT !.warnings = Append(@, Msg("error", "FetchError", name))]
        ELSE IF HasTotalRevenue(resp)
             THEN IF IsSeriesNotEmpty(resp)
                  THEN [called EXCEPT !.data = Append(@, Entry(name, resp))]
                  ELSE [called EXCEPT !.warnings =
                            Append(@, Msg("warning", "ShapeMismatch", name))]
             ELSE [called EXCEPT !.warnings = Append(@, Msg("warning", "NoData", name))]

(***************************************************************************)
(* pd.DataFrame(data): columns in insertion order, rows the union of the   *)
(* series' indexes, NaN where a series has no observation                  *)
(***************************************************************************)
\* a value that is not one-dimensional makes the constructor raise ValueError
ConstructorRaises(d) == \E k \in DOMAIN d : d[k].value.ndim # 1

\* identical indexes are kept as they are, differing ones are united and sorted
UnionIndex(d) ==
    IF \A k \in DOMAIN d : d[k].value.index = d[1].value.index
    THEN d[1].value.index
    ELSE SortedSeq(UNION {Range(d[k].value.index) : k \in DOMAIN d})

ValueAt(v, t) ==
    IF \E k \in DOMAIN v.index : v.index[k] = t
    THEN v.values[CHOOSE k \in DOMAIN v.index : v.index[k] = t]
    ELSE NaN

DataFrame(d) ==
    IF d = <<>> THEN EmptyDataFrame
    ELSE LET idx == UnionIndex(d)
         IN  [index |-> idx,
              dated |-> \A k \in DOMAIN d : d[k].value.dated,
              columns |-> [k \in DOMAIN d |-> d[k].name],
              cells |-> [n \in {d[k].name : k \in DOMAIN d} |->
                           LET v == (CHOOSE k \in DOMAIN d : d[k].name = n)
                           IN  [r \in DOMAIN idx |-> ValueAt(d[v].value, idx[r])]]]

\* the merge entered without the `if data:` test
HasData_always(d) == TRUE

\* `if data:` a dict is true when it has a key
HasData(d) == Len(d) > 0

\* DatetimeIndex.year of one timestamp
YearOf(t) == t \div PeriodsPerYear

\* df.sort_index(): rows reordered by label
sort_index(df) ==
    LET p == SortPerm(df.index)
    IN  [df EXCEPT !.index = [r \in DOMAIN p |-> df.index[p[r]]],
                   !.cells = [n \in DOMAIN df.cells |->
                                [r \in DOMAIN p |-> df.cells[n][p[r]]]]]

\* what a call leaves behind: the returned table, or the exception it raised
Outcome(r, w, e) == [ret |-> r, warnings |-> w, raised |-> e]

\* load_data after the loop, 04_semi.py lines 41-43
load_data_return(st) ==
    IF HasData(st.data)
    THEN IF ConstructorRaises(st.data)
         THEN Outcome(EmptyDataFrame, st.warnings, "ValueError")
         ELSE Outcome(DataFrame(st.data), st.warnings, "none")
    ELSE Outcome(EmptyDataFrame, st.warnings, "none")

\* load_revenue_data after the loop, app.py lines 53-67
load_revenue_data_return(st) ==
    IF HasData(st.data)
    THEN IF ConstructorRaises(st.data)
         \* except ValueError: st.error, st.warning, return pd.DataFrame()
         THEN Outcome(EmptyDataFrame,
                      st.warnings \o <<Msg("error", "StructuralError", ""),
                                       Msg("warning", "StructuralError", "")>>,
                      "none")
         ELSE LET df == DataFrame(st.data)
              IN  IF ~df.dated
                  \* .index.year on an index that is no DatetimeIndex
                  THEN Outcome(EmptyDataFrame, st.warnings, "AttributeError")
                  ELSE Outcome(sort_index([df EXCEPT !.index =
                                   [r \in DOMAIN df.index |-> YearOf(df.index[r])],
                                   !.dated = FALSE]),
                               st.warnings, "none")
    ELSE Outcome(EmptyDataFrame, st.warnings, "none")

\* the whole call on ticker_list tl, as the loop runs it
RECURSIVE RunLoop(_, _, _, _)
RunLoop(m, tl, src, st) ==
    IF tl = <<>> THEN st
    ELSE RunLoop(m, Tail(tl), src,
                 IF m = "price" THEN load_data_step(st, Head(tl), src[Head(tl)])
                 ELSE load_revenue_data_step(st, Head(tl), src[Head(tl)]))

NewCall == [data |-> <<>>, warnings |-> <<>>, reads |-> 0]

Load(m, tl, src) ==
    LET st == RunLoop(m, tl, src, NewCall)
    IN  IF m = "price" THEN load_data_return(st) ELSE load_revenue_data_return(st)

(***************************************************************************)
(* State machine of one call of the loader                                 *)
(***************************************************************************)
\* every ordering of every selection of instruments
TickerLists ==
    {s \in UNION {[1..n -> Names] : n \in 0..NumNames} :
        \A a, b \in DOMAIN s : a # b => s[a] # s[b]}

Init ==
    /\ mode \in {"price", "revenue"}
    /\ ticker_list \in TickerLists
    /\ source \in [Range(ticker_list) -> Responses(mode)]
    /\ i = 1
    /\ data = <<>>
    /\ warnings = <<>>
    /\ reads = 0
    /\ pc = "fetch"
    /\ ret = EmptyDataFrame
    /\ raised = "none"
    /\ start_year = 0
    /\ df_filtered = EmptyDataFrame
    /\ normalized_df = EmptyDataFrame
    /\ df_long = <<>>

LoopState == [data |-> data, warnings |-> warnings, reads |-> reads]

LoadDataStep ==
    /\ pc = "fetch" /\ mode = "price" /\ i <= Len(ticker_list)
    /\ LET st == load_data_step(LoopState, ticker_list[i], source[ticker_list[i]])
       IN  /\ data' = st.data
           /\ warnings' = st.warnings
           /\ reads' = st.reads
    /\ i' = i + 1
    /\ UNCHANGED <<mode, ticker_list, source, pc, ret, raised>>
    /\ UNCHANGED pageVars

LoadRevenueStep ==
    /\ pc = "fetch" /\ mode = "revenue" /\ i <= Len(ticker_list)
    /\ LET st == load_revenue_data_step(LoopState, ticker_list[i], source[ticker_list[i]])
       IN  /\ data' = st.data
           /\ warnings' = st.warnings
           /\ reads' = st.reads
    /\ i' = i + 1
    /\ UNCHANGED <<mode, ticker_list, source, pc, ret, raised>>
    /\ UNCHANGED pageVars

Finish(o) ==
    /\ ret' = o.ret
    /\ warnings' = o.warnings
    /\ raised' = o.raised
    /\ pc' = IF o.raised = "none" THEN "done" ELSE "crashed"

LoadDataReturn ==
    /\ pc = "fetch" /\ mode = "price" /\ i > Len(ticker_list)
    /\ Finish(load_data_return(LoopState))
    /\ UNCHANGED <<mode, ticker_list, source, i, data, reads>>
    /\ UNCHANGED pageVars

LoadRevenueReturn ==
    /\ pc = "fetch" /\ mode = "revenue" /\ i > Len(ticker_list)
    /\ Finish(load_revenue_data_return(LoopState))
    /\ UNCHANGED <<mode, ticker_list, source, i, data, reads>>
    /\ UNCHANGED pageVars

(***************************************************************************)
(* app.py lines 116-147: year filter, normalisation to 100, long format    *)
(***************************************************************************)
\* df_revenue_full[df_revenue_full.index >= start_year]
FilterRows(df, y) ==
    LET keep == SelectSeq([r \in DOMAIN df.index |-> r], LAMBDA r : df.index[r] >= y)
    IN  [df EXCEPT !.index = [r \in DOMAIN keep |-> df.index[keep[r]]],
                   !.cells = [n \in DOMAIN df.cells |->
                                [r \in DOMAIN keep |-> df.cells[n][keep[r]]]]]

\* lines 117-120
filter_years(df, y) == IF ~IsEmpty(df) THEN FilterRows(df, y) ELSE EmptyDataFrame

\* one column of df_display = df_filtered / 1_000_000_000
df_display(col) == [r \in DOMAIN col |-> Div(col[r], Flt(Scale))]

\* x.iloc[0] without the dropna()
first_valid_iloc0(col) == col[1]

\* lambda x: x.dropna().iloc[0] if not x.dropna().empty else np.nan
first_valid(col) ==
    IF \E k \in DOMAIN col : ~isna(col[k])
    THEN col[CHOOSE k \in DOMAIN col :
                ~isna(col[k]) /\ \A j \in 1..(k - 1) : isna(col[j])]
    ELSE NaN

\* the start value used as it is, without .replace(0, 1)
replace_0_1_missing(v) == v

\* .replace(0, 1) on one start value
replace_0_1(v) == IF IsZero(v) THEN Flt(1) ELSE v

\* valid_start_values.replace(0, 1) of one column of df_display
start_value(col) == replace_0_1(first_valid(col))

\* one column of df_display / start value, without the * 100
normalize_ratio(col) ==
    LET disp == <<>> \o df_display(col)
        start == start_value(disp)
    IN  [r \in DOMAIN col |-> Div(disp[r], start)]

\* one column of (df_display / valid_start_values.replace(0, 1)) * 100
normalize(col) ==
    LET disp == <<>> \o df_display(col)
        start == start_value(disp)
    IN  [r \in DOMAIN col |-> MulInt(Div(disp[r], start), Base)]

\* normalized_df, column by column
normalized(df) == [df EXCEPT !.cells = [n \in DOMAIN df.cells |-> normalize(df.cells[n])]]

\* normalized_df.reset_index().melt(id_vars='index', ...), renamed to Year
melt(df) ==
    LET nr == Len(df.index)
    IN  [k \in 1..(Len(df.columns) * nr) |->
            LET c == df.columns[((k - 1) \div nr) + 1]
                r == ((k - 1) % nr) + 1
            IN  [Year |-> df.index[r], Stock |-> c,
                 Normalized_Revenue |-> df.cells[c][r]]]

FilterYears ==
    /\ pc = "loaded"
    /\ df_filtered' = filter_years(ret, start_year)
    /\ pc' = "filtered"
    /\ UNCHANGED fetchVars
    /\ UNCHANGED <<start_year, normalized_df, df_long>>

Normalize ==
    /\ pc = "filtered" /\ ~IsEmpty(df_filtered)
    /\ normalized_df' = normalized(df_filtered)
    /\ pc' = "normalized"
    /\ UNCHANGED fetchVars
    /\ UNCHANGED <<start_year, df_filtered, df_long>>

Melt ==
    /\ pc = "normalized"
    /\ df_long' = melt(normalized_df)
    /\ pc' = "charted"
    /\ UNCHANGED fetchVars
    /\ UNCHANGED <<start_year, df_filtered, normalized_df>>

\* line 174: nothing in the selected years
ReportNoData ==
    /\ pc = "filtered" /\ IsEmpty(df_filtered)
    /\ warnings' = Append(warnings, Msg("error", "NoRows", ""))
    /\ pc' = "nodata"
    /\ UNCHANGED <<mode, ticker_list, source, i, data, reads, ret, raised>>
    /\ UNCHANGED pageVars

\* the two instruments of the tables handed to the page code
Selected == <<TICKERS[1], TICKERS[2]>>

Years == {YearOf(t) : t \in Dates}

Cells == {NaN, Flt(0), Flt(MaxVal), Flt(Base)}

\* what load_revenue_data returns: rows sorted by year (a year may repeat)
LoadedTables ==
    {[index |-> idx, dated |-> FALSE, columns |-> Selected, cells |-> c] :
        idx \in {s \in [1..NumRows -> Years] :
                    \A r \in 1..(NumRows - 1) : s[r] <= s[r + 1]},
        c \in [Range(Selected) -> [1..NumRows -> Cells]]}
    \cup {EmptyDataFrame}

InitPage ==
    /\ mode = "revenue"
    /\ ticker_list = Selected
    /\ source = <<>>
    /\ i = Len(Selected) + 1
    /\ data = <<>>
    /\ warnings = <<>>
    /\ reads = Len(Selected)
    /\ pc = "loaded"
    /\ ret \in LoadedTables
    /\ raised = "none"
    /\ start_year \in Years
    /\ df_filtered = EmptyDataFrame
    /\ normalized_df = EmptyDataFrame
    /\ df_long = <<>>

Next ==
    \/ LoadDataStep
    \/ LoadRevenueStep
    \/ LoadDataReturn
    \/ LoadRevenueReturn

Spec == Init /\ [][Next]_vars

NextPage ==
    \/ FilterYears
    \/ Normalize
    \/ Melt
    \/ ReportNoData

SpecNorm == InitPage /\ [][NextPage]_vars

(***************************************************************************)
(* Properties of the loaders (specification Spec)                          *)
(***************************************************************************)
Selection == Range(ticker_list)

IsValidSeries(resp) == resp.kind = "series" /\ resp.dated /\ Len(resp.index) > 0

MsgsOf(w, n) == {k \in DOMAIN w : w[k].name = n}

\* the responses are of the three kinds: a valid series, no data, an exception
ThreeOutcomes ==
    \A n \in Selection : IsValidSeries(source[n]) \/ source[n].kind \in {"empty", "raise"}

\* C1: per-instrument failure isolation. When every instrument answers with a
\* valid series, with no data or with an exception, the call never aborts; the
\* returned columns are exactly the instruments that answered with a valid
\* series; each excluded instrument has exactly one message (NoData for an
\* empty answer, FetchError for an exception), an included one has none.
C1_FailureIsolation ==
    ThreeOutcomes =>
        /\ pc # "crashed"
        /\ pc = "done" =>
            /\ Range(ret.columns) = {n \in Selection : IsValidSeries(source[n])}
            /\ Len(ret.columns) = Cardinality(Range(ret.columns))
            /\ \A n \in Selection :
                 LET ws == MsgsOf(warnings, n)
                 IN  CASE IsValidSeries(source[n]) -> ws = {}
                       [] source[n].kind = "empty" ->
                            /\ Cardinality(ws) = 1
                            /\ \A k \in ws : warnings[k].kind = "NoData"
                       [] OTHER ->
                            /\ Cardinality(ws) = 1
                            /\ \A k \in ws : warnings[k].kind = "FetchError"
            /\ \A k \in DOMAIN warnings : warnings[k].name \in Selection

C1_Witness ==
    /\ pc = "done" /\ ThreeOutcomes /\ Len(ticker_list) = 2
    /\ source[ticker_list[1]].kind = "raise"
    /\ IsValidSeries(source[ticker_list[2]])
    /\ ret.columns = <<ticker_list[2]>>
    /\ Len(warnings) = 1

\* C2: shape validation. An answer whose extracted value is not one series is
\* excluded with a ShapeMismatch message, so every value of `data` is a
\* non-empty one-dimensional series.
C2_ShapeValidated ==
    /\ \A k \in DOMAIN data :
         data[k].value.ndim = 1 /\ Len(data[k].value.index) > 0
    /\ \A k \in 1..(i - 1) :
         source[ticker_list[k]].kind = "table" =>
            /\ \A j \in DOMAIN data : data[j].name # ticker_list[k]
            /\ \E j \in MsgsOf(warnings, ticker_list[k]) :
                  warnings[j].kind = "ShapeMismatch"

\* C3: a structural failure of the merge never escapes. No call ends in an
\* uncaught exception; when the construction of the merged table fails the
\* call returns the empty table with one StructuralError message.
C3_NoFatalError ==
    /\ pc # "crashed"
    /\ raised = "none"
    /\ (pc = "done" /\ HasData(data) /\ ConstructorRaises(data)) =>
          /\ ret = EmptyDataFrame
          /\ Cardinality({k \in DOMAIN warnings :
                             warnings[k].kind = "StructuralError"}) = 1

\* C4: with at least one successful fetch the index of the returned table is
\* strictly increasing, without a repeated entry, and shared by every column.
C4_IndexStrictlyIncreasing ==
    (pc = "done" /\ Len(ret.columns) > 0) =>
        /\ \A r \in 1..(Len(ret.index) - 1) : ret.index[r] < ret.index[r + 1]
        /\ \A n \in Range(ret.columns) : Len(ret.cells[n]) = Len(ret.index)

\* what the name-to-series content and the messages of an outcome are,
\* whatever the order of the columns and of the messages
Content(o) ==
    [raised |-> o.raised, index |-> o.ret.index, names |-> Range(o.ret.columns),
     cells |-> o.ret.cells, warnings |-> Range(o.warnings)]

\* the selection in the order of TICKERS
RECURSIVE InTickersOrder(_, _)
InTickersOrder(S, k) ==
    IF k > Len(TICKERS) THEN <<>>
    ELSE (IF TICKERS[k] \in S THEN <<TICKERS[k]>> ELSE <<>>) \o InTickersOrder(S, k + 1)

\* what the loop recorded for one name: its entry of `data` and its messages
Recorded(st, n) ==
    [entry |-> {st.data[k].value : k \in {j \in DOMAIN st.data : st.data[j].name = n}},
     msgs |-> {st.warnings[k] : k \in MsgsOf(st.warnings, n)}]

\* C8: order independence. Whatever the order in which the instruments are
\* fetched, the call ends with the same name-to-series content and the same
\* set of messages as in the order of TICKERS; every message of the loop names
\* its instrument, and what is recorded for an instrument is what a call for
\* that instrument alone records.
C8_OrderIndependent ==
    /\ pc \in {"done", "crashed"} =>
         Content(Outcome(ret, warnings, raised))
            = Content(Load(mode, InTickersOrder(Selection, 1), source))
    /\ (pc = "fetch" /\ i > Len(ticker_list)) =>
         /\ \A k \in DOMAIN warnings : warnings[k].name \in Selection
         /\ \A n \in Selection :
              Recorded(LoopState, n) = Recorded(RunLoop(mode, <<n>>, source, NewCall), n)

C8_Witness ==
    /\ pc = "done" /\ mode = "revenue" /\ Len(ticker_list) = 2
    /\ ticker_list # InTickersOrder(Selection, 1)
    /\ IsValidSeries(source[ticker_list[1]])
    /\ IsValidSeries(source[ticker_list[2]])
    /\ source[ticker_list[1]] # source[ticker_list[2]]
    /\ Len(ret.columns) = 2

\* C9: empty input. A call with no instrument performs no read of the source,
\* records no message, raises nothing and returns the empty table.
C9_EmptyInput ==
    ticker_list = <<>> =>
        /\ pc # "crashed"
        /\ reads = 0
        /\ warnings = <<>>
        /\ raised = "none"
        /\ pc = "done" => ret = EmptyDataFrame

C9_Witness == pc = "done" /\ ticker_list = <<>> /\ ret = EmptyDataFrame

(***************************************************************************)
(* Properties of the page code (specification SpecNorm)                    *)
(***************************************************************************)
Normalized == pc \in {"normalized", "charted"}

NonMissing(col) == {k \in DOMAIN col : ~isna(col[k])}

\* the first row of the window holding a value
IsBaselineRow(col, k) == k \in NonMissing(col) /\ \A j \in NonMissing(col) : k <= j

\* C5: a column whose first non-missing value in the window is not zero has
\* exactly 100 at that row; a column with no value in the window is entirely
\* missing in the output.
C5_BaselineIs100 ==
    Normalized =>
        \A n \in Range(df_filtered.columns) :
            LET col == df_filtered.cells[n]
                out == normalized_df.cells[n]
            IN  /\ Len(out) = Len(col)
                /\ NonMissing(col) = {} => \A r \in DOMAIN out : isna(out[r])
                /\ \A k \in DOMAIN col :
                     (IsBaselineRow(col, k) /\ ~IsZero(col[k])) => out[k] = Flt(Base)

C5_Witness ==
    /\ Normalized /\ Len(df_filtered.index) = 2
    /\ df_filtered.cells[Selected[1]] = <<NaN, Flt(MaxVal)>>
    /\ normalized_df.cells[Selected[1]] = <<NaN, Flt(Base)>>
    /\ NonMissing(df_filtered.cells[Selected[2]]) = {}
    /\ NonMissing(normalized_df.cells[Selected[2]]) = {}

ZeroBaseline(col) == \E k \in DOMAIN col : IsBaselineRow(col, k) /\ IsZero(col[k])

C7_LongFormDense ==
    pc = "charted" =>
        /\ \A k \in DOMAIN df_long : ~isna(df_long[k].Normalized_Revenue)
        /\ \A n \in Range(normalized_df.columns) :
             \A r \in NonMissing(normalized_df.cells[n]) :
                Cardinality({k \in DOMAIN df_long :
                    df_long[k] = [Year |-> normalized_df.index[r], Stock |-> n,
                                  Normalized_Revenue |-> normalized_df.cells[n][r]]}) >= 1
        /\ Len(df_long) = Cardinality({<<n, r>> \in
                Range(normalized_df.columns) \X DOMAIN normalized_df.index :
                    ~isna(normalized_df.cells[n][r])})

\* every column of the window is empty or starts with 100
AlreadyNormalized(df) ==
    \A n \in Range(df.columns) :
        \A k \in DOMAIN df.cells[n] :
            IsBaselineRow(df.cells[n], k) => df.cells[n][k] = Flt(Base)

\* x and y differ by at most n units in the last place of x
Within(x, y, n) ==
    \/ x = y
    \/ /\ x.cls = "num" /\ y.cls = "num"
       /\ \/ /\ y.exp = x.exp
             /\ y.hi - x.hi \in -1..1
             /\ (y.hi - x.hi) * Limb + (y.lo - x.lo) \in -n..n
          \/ /\ y.exp = x.exp + 1
             /\ 2 * y.hi - x.hi \in -1..1
             /\ (2 * y.hi - x.hi) * Limb + (2 * y.lo - x.lo) \in -n..n
          \/ /\ y.exp = x.exp - 1
             /\ y.hi - 2 * x.hi \in -1..1
             /\ (y.hi - 2 * x.hi) * Limb + (y.lo - 2 * x.lo) \in -(2 * n)..(2 * n)

\* C10 as stated: idempotence. Normalising a table whose columns are already
\* 100 at their first value of the window returns the same table, every cell
\* unchanged, also when the columns start at different rows.
C10_Idempotent ==
    (Normalized /\ AlreadyNormalized(df_filtered)) =>
        /\ normalized_df.index = df_filtered.index
        /\ normalized_df.columns = df_filtered.columns
        /\ normalized_df.cells = df_filtered.cells

\* C10 amended: normalising such a table returns it up to the rounding of the
\* float operations: same rows and columns, missing cells still missing,
\* cells equal to 0 or to 100 unchanged, every other cell within 4 units in
\* the last place of its value.
C10_IdempotentUpToRounding ==
    (Normalized /\ AlreadyNormalized(df_filtered)) =>
        /\ normalized_df.index = df_filtered.index
        /\ normalized_df.columns = df_filtered.columns
        /\ \A n \in Range(df_filtered.columns) :
             \A r \in DOMAIN df_filtered.index :
                LET x == df_filtered.cells[n][r]
                    y == normalized_df.cells[n][r]
                IN  IF x \in {NaN, Zero, Flt(Base)} THEN y = x
                    ELSE Within(x, y, 4)

C10_Witness ==
    /\ Normalized /\ AlreadyNormalized(df_filtered)
    /\ df_filtered.cells[Selected[1]] = <<Flt(Base), Flt(MaxVal)>>
    /\ df_filtered.cells[Selected[2]] = <<NaN, Flt(Base)>>
    /\ normalized_df.cells[Selected[2]] = <<NaN, Flt(Base)>>
    /\ normalized_df.cells[Selected[1]][1] = Flt(Base)
    /\ normalized_df.cells[Selected[1]][2] # Flt(MaxVal)
    /\ Within(Flt(MaxVal), normalized_df.cells[Selected[1]][2], 1)

====
